---- MODULE Spec2Model ----
(***************************************************************************)
(* Hashline: content-hashed line tags (lineHash, tagLines, resolveHash),   *)
(* the hash-addressed change_file tool (offset variant) with the output of *)
(* its executor and the diff report formatUnifiedDiff makes of it, the     *)
(* resolver of the context variant, and the tagged read tool of            *)
(* pi-hh-read.                                                             *)
(*                                                                         *)
(* Representation.  A JavaScript string is the sequence of its UTF-16 code *)
(* units (naturals below 65536); "\n" is the code unit 10.  A file is the  *)
(* string of its content.  An optional value (a parameter that may be      *)
(* omitted, a variable that may be undefined) is <<>> when absent and      *)
(* <<v>> when present.  A 32-bit integer is the pair <<hi, lo>> of its two *)
(* 16-bit halves, so that no intermediate value leaves the range of the    *)
(* model checker's integers.                                               *)
(***************************************************************************)
EXTENDS Integers, Sequences, FiniteSets, TLC

VARIABLES
    file,       \* the content of the file every request targets
    pc,         \* per request: where its handler stands
    params,     \* per request: the parameters of the call
    snap,       \* per request: fileLines, the snapshot it read (optional)
    plan,       \* per request: what resolution decided (optional)
    exec,       \* per request: the executor run it dispatched (optional)
    resp,       \* per request: the response or the error (optional)
    libLines,   \* library calls: the array of lines the caller holds
    libCall     \* library calls: the last call made and what it returned

toolVars == <<file, pc, params, snap, plan, exec, resp>>
libVars == <<libLines, libCall>>
vars == <<file, pc, params, snap, plan, exec, resp, libLines, libCall>>

----------------------------------------------------------------------------
(* Bounds of the model *)

\* longest array of lines (and longest file, in lines) drawn as an input
MaxLines == 3
\* longest text handed to lineHash directly
MaxTextLen == 2
\* lines of the file section a diff is formatted for
DiffLines == 12

----------------------------------------------------------------------------
(* Optional values and strings *)

Null == <<>>
Some(v) == <<v>>

NL == 10

Min(S) == CHOOSE x \in S : \A y \in S : x <= y

\* all sequences over S of length lo..hi
SeqsOf(S, lo, hi) == UNION { [1..n -> S] : n \in lo..hi }

RECURSIVE Split(_)
\* String.prototype.split("\n"): never empty, one more element than newlines
Split(s) ==
    IF \A i \in 1..Len(s) : s[i] # NL THEN <<s>>
    ELSE LET k == Min({i \in 1..Len(s) : s[i] = NL})
         IN  <<SubSeq(s, 1, k - 1)>> \o Split(SubSeq(s, k + 1, Len(s)))

RECURSIVE Join(_)
\* Array.prototype.join("\n")
Join(ls) ==
    IF Len(ls) = 0 THEN <<>>
    ELSE IF Len(ls) = 1 THEN ls[1]
    ELSE ls[1] \o <<NL>> \o Join(Tail(ls))

endsWithNL(s) == Len(s) > 0 /\ s[Len(s)] = NL

----------------------------------------------------------------------------
(* lineHash: FNV-1a 32-bit, reduced to two base-62 digits *)

\* "0123456789ABCDEFGHIJKLMNOPQRSTUVWXYZabcdefghijklmnopqrstuvwxyz"
B62 == << 48, 49, 50, 51, 52, 53, 54, 55, 56, 57, 65, 66, 67, 68, 69, 70,
          71, 72, 73, 74, 75, 76, 77, 78, 79, 80, 81, 82, 83, 84, 85, 86,
          87, 88, 89, 90, 97, 98, 99, 100, 101, 102, 103, 104, 105, 106, 107, 108,
          109, 110, 111, 112, 113, 114, 115, 116, 117, 118, 119, 120, 121, 122 >>

\* 0x811c9dc5 as <<0x811c, 0x9dc5>>
FnvOffsetBasis == <<33052, 40389>>
\* 0x01000193 as <<0x0100, 0x0193>>
FnvPrime == <<256, 403>>
\* 62 * 62
HashSpace == 3844

RECURSIVE BitXor(_, _)
\* bitwise exclusive or of two naturals
BitXor(a, b) ==
    IF a = 0 THEN b
    ELSE IF b = 0 THEN a
    ELSE (((a % 2) + (b % 2)) % 2) + 2 * BitXor(a \div 2, b \div 2)

\* h ^= text.charCodeAt(i): a code unit is below 2^16, only the low half changes
xorCode(h, code) == <<h[1], BitXor(h[2], code)>>

\* Math.imul(h, 0x01000193): the low 32 bits of the product
imulPrimeWrong(h) ==
    LET low == h[2] * FnvPrime[2]
        mid == (h[1] * FnvPrime[2]) + (h[2] * FnvPrime[1])
    IN  <<(mid % 65536), (low % 65536)>>

imulPrime(h) ==
    LET low == h[2] * FnvPrime[2]
        mid == (h[1] * FnvPrime[2]) + (h[2] * FnvPrime[1]) + (low \div 65536)
    IN  <<(mid % 65536), (low % 65536)>>

RECURSIVE fnvLoop(_, _, _)
\* the for loop of lineHash, from index i (1-based) on
fnvLoop(text, i, h) ==
    IF i > Len(text) THEN h
    ELSE fnvLoop(text, i + 1, imulPrime(xorCode(h, text[i])))

\* (h >>> 0) % 3844: the unsigned value hi * 2^16 + lo, reduced
unsignedMod(h) == ((h[1] * (65536 % HashSpace)) + h[2]) % HashSpace

lineHash(text) ==
    LET n == unsignedMod(fnvLoop(text, 1, FnvOffsetBasis))
    IN  <<B62[(n \div 62) + 1], B62[(n % 62) + 1]>>

----------------------------------------------------------------------------
(* tagLines *)

\* "  |"
BlankTag == <<32, 32, 124>>

tagOne(line) ==
    IF Len(line) = 0 THEN BlankTag ELSE lineHash(line) \o <<124>> \o line

\* the first-occurrence-only policy: a later line with a hash already shown
\* gets the blank prefix
tagLinesFirstOnly(lines) ==
    [i \in 1..Len(lines) |->
        IF Len(lines[i]) > 0
           /\ \E j \in 1..(i - 1) : lineHash(lines[j]) = lineHash(lines[i])
        THEN BlankTag \o lines[i]
        ELSE tagOne(lines[i])]

tagLines(lines) == [i \in 1..Len(lines) |-> tagOne(lines[i])]

----------------------------------------------------------------------------
(* resolveHash *)

\* const start = offset != null ? offset - 1 : 0
searchStartIgnoresOffset(offset) == 0
searchStart(offset) == IF offset # Null THEN offset[1] - 1 ELSE 0

\* firstMatch = i + 1, for the 0-based index i
matchLineOffByOne(i) == i
matchLine(i) == i + 1

\* const ambiguous = offset == null && totalMatches > 1
ambiguousFlagNever(offset, totalMatches) == FALSE
ambiguousFlag(offset, totalMatches) == offset = Null /\ totalMatches > 1

RECURSIVE resolveScan(_, _, _, _, _)
\* the for loop of resolveHash from the 0-based index i on.  fileLines[i] is
\* undefined for i < 0, and reading its length throws a TypeError.
resolveScan(fileLines, hash, i, firstMatch, totalMatches) ==
    IF i >= Len(fileLines)
    THEN [threw |-> FALSE, firstMatch |-> firstMatch, totalMatches |-> totalMatches]
    ELSE IF i < 0
    THEN [threw |-> TRUE, firstMatch |-> firstMatch, totalMatches |-> totalMatches]
    ELSE IF Len(fileLines[i + 1]) > 0 /\ lineHash(fileLines[i + 1]) = hash
    THEN resolveScan(fileLines, hash, i + 1,
                     IF firstMatch = Null THEN Some(matchLine(i)) ELSE firstMatch,
                     totalMatches + 1)
    ELSE resolveScan(fileLines, hash, i + 1, firstMatch, totalMatches)

\* the result: a line and the ambiguous flag, or the error thrown
resolveHash(fileLines, hash, offset) ==
    LET r == resolveScan(fileLines, hash, searchStart(offset), Null, 0)
    IN  IF r.threw
        THEN [ok |-> FALSE, error |-> "TypeError", line |-> 0, ambiguous |-> FALSE]
        ELSE IF r.firstMatch = Null
        THEN [ok |-> FALSE,
              error |-> IF offset # Null /\ offset[1] # 0
                        THEN "HashNotFoundAtOrAfter" ELSE "HashNotFound",
              line |-> 0, ambiguous |-> FALSE]
        ELSE [ok |-> TRUE, error |-> "",
              line |-> r.firstMatch[1],
              ambiguous |-> ambiguousFlag(offset, r.totalMatches)]

----------------------------------------------------------------------------
(* resolveHash with a context anchor, the resolver of the context variant of *)
(* change_file                                                               *)

Abs(n) == IF n < 0 THEN 0 - n ELSE n

\* the lines that are candidates for an anchor: blank lines never are
matchingLines(fileLines, hash) ==
    {i \in 1..Len(fileLines) :
        Len(fileLines[i]) > 0 /\ lineHash(fileLines[i]) = hash}

\* a candidate replaces the best one found so far when it is nearer to the
\* context line
closerOrTied(line, best, ctxLine) == Abs(line - ctxLine) <= Abs(best - ctxLine)
closer(line, best, ctxLine) == Abs(line - ctxLine) < Abs(best - ctxLine)

RECURSIVE closestCandidate(_, _, _, _, _)
\* the scan for the candidate nearest to the context line, from line i on
closestCandidate(fileLines, hash, ctxLine, i, best) ==
    IF i > Len(fileLines) THEN best
    ELSE IF /\ i \in matchingLines(fileLines, hash)
            /\ (best = Null \/ closer(i, best[1], ctxLine))
    THEN closestCandidate(fileLines, hash, ctxLine, i + 1, Some(i))
    ELSE closestCandidate(fileLines, hash, ctxLine, i + 1, best)

resolveFailure(error) == [ok |-> FALSE, error |-> error, line |-> 0]

\* no candidate: StaleAnchor; one: that line; several: the one nearest to
\* the line of the context anchor, which must itself have one candidate
resolveHashContext(fileLines, hash, ctxHash) ==
    LET cands == matchingLines(fileLines, hash)
        ctxCands == matchingLines(fileLines, ctxHash[1])
        ctxLine == CHOOSE c \in ctxCands : TRUE
    IN  IF cands = {} THEN resolveFailure("StaleAnchor")
        ELSE IF Cardinality(cands) = 1
        THEN [ok |-> TRUE, error |-> "", line |-> CHOOSE c \in cands : TRUE]
        ELSE IF ctxHash = Null THEN resolveFailure("AmbiguousAnchor")
        ELSE IF ctxCands = {} THEN resolveFailure("StaleAnchor")
        ELSE IF Cardinality(ctxCands) > 1 THEN resolveFailure("AmbiguousContext")
        ELSE [ok |-> TRUE, error |-> "",
              line |-> closestCandidate(fileLines, hash, ctxLine, 1, Null)[1]]

----------------------------------------------------------------------------
(* The mutation executor: CREATE_SCRIPT and EDIT_SCRIPT *)

RECURSIVE Terminate(_)
\* the lines, each followed by a newline
Terminate(ls) ==
    IF Len(ls) = 0 THEN <<>> ELSE ls[1] \o <<NL>> \o Terminate(Tail(ls))

\* the number of lines head, tail and sed see in s: a last line without a
\* newline counts, nothing after a final newline does
unixLineCount(s) ==
    LET parts == Split(s)
    IN  IF parts[Len(parts)] = <<>> THEN Len(parts) - 1 ELSE Len(parts)

\* head -n k
headN(s, k) ==
    IF k >= unixLineCount(s) THEN s ELSE Terminate(SubSeq(Split(s), 1, k))

\* tail -n +k
tailFrom(s, k) ==
    IF k > unixLineCount(s) THEN <<>>
    ELSE Join(SubSeq(Split(s), k, Len(Split(s))))

\* sed -i "a,bd"
sedDelete(s, a, b) ==
    LET parts == Split(s)
        u == unixLineCount(s)
        e == IF b < a THEN a ELSE IF b < u THEN b ELSE u
    IN  IF a > u THEN s
        ELSE IF e = u THEN Terminate(SubSeq(parts, 1, a - 1))
        ELSE Join(SubSeq(parts, 1, a - 1) \o SubSeq(parts, e + 1, Len(parts)))

\* printf '%s' "$2" > "$1"
CREATE_SCRIPT(text) == text

\* the file EDIT_SCRIPT leaves, from the file it finds
EDIT_SCRIPT(s, mode, content, start, stop) ==
    IF mode = "delete" THEN sedDelete(s, start, stop)
    ELSE IF mode = "insert"
    THEN headN(s, start - 1) \o content \o tailFrom(s, start)
    ELSE headN(s, start - 1) \o content \o tailFrom(s, stop + 1)

----------------------------------------------------------------------------
(* The executor's output: NO_CHANGES, or the text of diff -U99999 *)

Max(S) == CHOOSE x \in S : \A y \in S : x >= y

RECURSIVE decimal(_)
\* the decimal digits of a natural number
decimal(n) ==
    IF n < 10 THEN <<48 + n>> ELSE decimal(n \div 10) \o <<48 + (n % 10)>>

\* the lines of a file as diff compares them: the text of each, and whether a
\* newline follows it (only the last line may lack one)
fileTokens(s) ==
    LET parts == Split(s)
    IN  [i \in 1..unixLineCount(s) |-> [text |-> parts[i], nl |-> i < Len(parts)]]

\* the lines two files have in common at their start
commonPrefix(o, n) ==
    Max({k \in 0..Len(o) : k <= Len(n) /\ \A i \in 1..k : o[i] = n[i]})

\* the lines they have in common at their end, past the common start
commonSuffix(o, n, p) ==
    Max({k \in 0..(Len(o) - p) :
            /\ k <= Len(n) - p
            /\ \A i \in 0..(k - 1) : o[Len(o) - i] = n[Len(n) - i]})

RECURSIVE lcsLength(_, _, _, _)
\* the length of a longest common subsequence of o[a..] and n[b..]
lcsLength(o, n, a, b) ==
    IF a > Len(o) \/ b > Len(n) THEN 0
    ELSE IF o[a] = n[b] THEN 1 + lcsLength(o, n, a + 1, b + 1)
    ELSE IF \A y \in b..Len(n) : n[y] # o[a] THEN lcsLength(o, n, a + 1, b)
    ELSE IF \A x \in a..Len(o) : o[x] # n[b] THEN lcsLength(o, n, a, b + 1)
    ELSE Max({lcsLength(o, n, a + 1, b), lcsLength(o, n, a, b + 1)})

\* "\ No newline at end of file"
NoNewlineMarker ==
    <<92, 32, 78, 111, 32, 110, 101, 119, 108, 105, 110, 101, 32, 97, 116, 32,
      101, 110, 100, 32, 111, 102, 32, 102, 105, 108, 101>>

\* the rows diff prints for the lines toks, all with the same first character
diffRows(ch, toks) ==
    [i \in 1..Len(toks) |-> [ch |-> ch, tok |-> toks[i]]]

RECURSIVE editRows(_, _, _, _)
\* the rows for o[a..] against n[b..]: a longest common subsequence is kept
\* as context, matching each new line as early as possible; between two
\* context rows the removed lines come before the added ones
editRows(o, n, a, b) ==
    LET t == lcsLength(o, n, a, b)
        fits(i, j) == /\ o[i] = n[j]
                      /\ 1 + lcsLength(o, n, i + 1, j + 1) = t
        j == Min({y \in b..Len(n) : \E x \in a..Len(o) : fits(x, y)})
        i == Min({x \in a..Len(o) : fits(x, j)})
    IN  IF t = 0
        THEN diffRows(45, SubSeq(o, a, Len(o))) \o diffRows(43, SubSeq(n, b, Len(n)))
        ELSE diffRows(45, SubSeq(o, a, i - 1)) \o diffRows(43, SubSeq(n, b, j - 1))
             \o diffRows(32, <<o[i]>>) \o editRows(o, n, i + 1, j + 1)

\* all the rows of the single hunk that -U99999 prints for a short file
hunkRows(o, n) ==
    LET p == commonPrefix(o, n)
        q == commonSuffix(o, n, p)
    IN  diffRows(32, SubSeq(o, 1, p))
        \o editRows(SubSeq(o, p + 1, Len(o) - q), SubSeq(n, p + 1, Len(n) - q), 1, 1)
        \o diffRows(32, SubSeq(o, Len(o) - q + 1, Len(o)))

RECURSIVE rowTexts(_)
\* the text of the rows; a line without a newline is followed by the marker
rowTexts(rows) ==
    IF Len(rows) = 0 THEN <<>>
    ELSE (IF rows[1].tok.nl
          THEN <<(<<rows[1].ch>> \o rows[1].tok.text)>>
          ELSE <<(<<rows[1].ch>> \o rows[1].tok.text), NoNewlineMarker>>)
         \o rowTexts(Tail(rows))

\* the range of a hunk header that starts at line `start`: "s" for one line,
\* "s,c" otherwise, and the line before for no line at all
hunkRange(start, count) ==
    IF count = 0 THEN decimal(start - 1) \o <<44, 48>>
    ELSE IF count = 1 THEN decimal(start)
    ELSE decimal(start) \o <<44>> \o decimal(count)

\* "@@ -<old range> +<new range> @@"
hunkHeader(oldStart, oldCount, newStart, newCount) ==
    <<64, 64, 32, 45>> \o hunkRange(oldStart, oldCount)
    \o <<32, 43>> \o hunkRange(newStart, newCount) \o <<32, 64, 64>>

\* "--- T" and "+++ F": the two file header lines, by short file names
OldFileHeader == <<45, 45, 45, 32, 84>>
NewFileHeader == <<43, 43, 43, 32, 70>>

\* the text of a diff with one hunk: the old lines o against the new lines
\* n, both starting at line `start` of their files
hunkText(start, o, n) ==
    Terminate(<<OldFileHeader, NewFileHeader,
                hunkHeader(start, Len(o), start, Len(n))>>
              \o rowTexts(hunkRows(o, n)))

\* diff -U99999 "$TMP" "$FILE", for two files that differ: the context
\* covers the whole of a file of fewer lines, the hunk starts at line 1
unifiedDiff(before, after) == hunkText(1, fileTokens(before), fileTokens(after))

\* "NO_CHANGES"
NO_CHANGES == <<78, 79, 95, 67, 72, 65, 78, 71, 69, 83>>

\* what EDIT_SCRIPT prints: cmp -s, then echo NO_CHANGES or diff
editStdout(before, after) ==
    IF after = before THEN NO_CHANGES \o <<NL>> ELSE unifiedDiff(before, after)

----------------------------------------------------------------------------
(* change_file, offset variant: from the snapshot to the executor's arguments *)

\* !content
falsy(content) == content = Null \/ content[1] = <<>>

\* the offset handed to the resolution of hash_stop: offset ?? lineStart
stopSearchOffset(offset, lineStart) ==
    IF offset # Null THEN offset ELSE Some(lineStart)

\* lineStop != null && lineStop < lineStart
rangeInvalidNever(lineStart, lineStop) == FALSE
rangeInvalid(lineStart, lineStop) ==
    lineStop # Null /\ lineStop[1] < lineStart

\* const mode = !content ? "delete" : lineStop != null ? "replace" : "insert"
editMode(content, lineStop) ==
    IF falsy(content) THEN "delete"
    ELSE IF lineStop # Null THEN "replace"
    ELSE "insert"

\* insert mode: drop the last content line when its hash is that of the line
\* inserted before
dropDuplicateTail(mode, content, fileLines, lineStart) ==
    IF mode = "insert" /\ ~falsy(content)
    THEN LET contentLines == Split(content[1])
         IN  IF Len(contentLines) > 0
                /\ lineHash(contentLines[Len(contentLines)]) = lineHash(fileLines[lineStart])
             THEN Some(Join(SubSeq(contentLines, 1, Len(contentLines) - 1)))
             ELSE content
    ELSE content

\* content && !content.endsWith("\n") ? content + "\n" : (content ?? "")
normalizeContent(content) ==
    IF ~falsy(content) /\ ~endsWithNL(content[1]) THEN content[1] \o <<NL>>
    ELSE IF content = Null THEN <<>>
    ELSE content[1]

\* a warning, by the anchor it names and the line it reports
warning(hash, line) == [hash |-> hash, line |-> line]

Rejected(error, lineStart, lineStop, stopOffset, warnings) ==
    [ok |-> FALSE, error |-> error, lineStart |-> lineStart, lineStop |-> lineStop,
     stopOffset |-> stopOffset, warnings |-> warnings,
     mode |-> "", contentAfterDrop |-> Null, content |-> <<>>]

\* the handler from the snapshot to the call of the executor: either the
\* error it throws, or the arguments it passes
resolveEdit(fileLines, p) ==
    LET startResult == resolveHash(fileLines, p.hash_start[1], p.offset)
        lineStart == startResult.line
        warnStart == IF startResult.ambiguous
                     THEN <<warning(p.hash_start[1], lineStart)>> ELSE <<>>
        stopOffset == IF p.hash_stop # Null
                      THEN Some(stopSearchOffset(p.offset, lineStart)) ELSE Null
        stopResult == resolveHash(fileLines, p.hash_stop[1], stopOffset[1])
        lineStop == IF p.hash_stop # Null THEN Some(stopResult.line) ELSE Null
        warnStop == IF p.hash_stop # Null /\ stopResult.ambiguous
                    THEN <<warning(p.hash_stop[1], stopResult.line)>> ELSE <<>>
        warnings == warnStart \o warnStop
        mode == editMode(p.content, lineStop)
        content == dropDuplicateTail(mode, p.content, fileLines, lineStart)
    IN  IF ~startResult.ok
        THEN Rejected(startResult.error, 0, Null, Null, <<>>)
        ELSE IF p.hash_stop # Null /\ ~stopResult.ok
        THEN Rejected(stopResult.error, lineStart, Null, stopOffset, warnStart)
        ELSE IF rangeInvalid(lineStart, lineStop)
        THEN Rejected("InvalidRange", lineStart, lineStop, stopOffset, warnings)
        ELSE [ok |-> TRUE, error |-> "", lineStart |-> lineStart, lineStop |-> lineStop,
              stopOffset |-> stopOffset, warnings |-> warnings,
              mode |-> mode, contentAfterDrop |-> content,
              content |-> normalizeContent(content)]

\* String(lineStop ?? lineStart)
stopArg(pl) == IF pl.lineStop # Null THEN pl.lineStop[1] ELSE pl.lineStart

\* a message that names no anchor
plainMessage(verb) == [verb |-> verb, names |-> <<>>]

\* the summary line, by its verb and the anchors it names
buildMessage(mode, hashStart, hashStop) ==
    IF mode = "delete"
    THEN IF hashStop # Null /\ hashStop[1] # hashStart
         THEN [verb |-> "Deleted", names |-> <<hashStart, hashStop[1]>>]
         ELSE [verb |-> "Deleted", names |-> <<hashStart>>]
    ELSE IF mode = "replace"
    THEN [verb |-> "Replaced", names |-> <<hashStart, hashStop[1]>>]
    ELSE [verb |-> "Inserted before", names |-> <<hashStart>>]

\* the anchors of the written lines appended to the message: the handler
\* counts the lines of content from the first changed line of the diff, in
\* the file as it reads it again
newRange(content, firstChangedLine, newFileLines) ==
    IF ~falsy(content) /\ firstChangedLine # Null
    THEN LET newLineCount == Len(Split(content[1]))
             firstNew == firstChangedLine[1]
             lastNew == firstNew + newLineCount - 1
             firstHash == lineHash(newFileLines[firstNew])
             lastHash == lineHash(newFileLines[lastNew])
         IN  IF firstNew >= 1 /\ lastNew <= Len(newFileLines)
             THEN IF firstHash = lastHash THEN Some(<<firstHash>>)
                  ELSE Some(<<firstHash, lastHash>>)
             ELSE Null
    ELSE Null

----------------------------------------------------------------------------
(* formatUnifiedDiff: from the text of diff to the windowed report *)

\* the rows of context kept on each side of a change
CONTEXT == 4

\* JavaScript white space, as far as the executor's output can contain it
isSpace(c) == c \in {9, 10, 13, 32}

isDigit(c) == c \in 48..57

\* String.prototype.trim()
jsTrim(s) ==
    LET inked == {i \in 1..Len(s) : ~isSpace(s[i])}
    IN  IF inked = {} THEN <<>> ELSE SubSeq(s, Min(inked), Max(inked))

\* String.prototype.startsWith
startsWith(s, prefix) ==
    Len(s) >= Len(prefix) /\ SubSeq(s, 1, Len(prefix)) = prefix

RECURSIVE parseDecimal(_)
\* +m[k]: the number a string of digits denotes
parseDecimal(digits) ==
    IF Len(digits) = 0 THEN 0
    ELSE (10 * parseDecimal(SubSeq(digits, 1, Len(digits) - 1)))
         + (digits[Len(digits)] - 48)

\* the longest run of digits of raw that starts at index p
digitRun(raw, p) ==
    LET stop == Min({i \in p..(Len(raw) + 1) : i > Len(raw) \/ ~isDigit(raw[i])})
    IN  SubSeq(raw, p, stop - 1)

\* raw.match(/@@ -(\d+).* \+(\d+)/): the two numbers captured, or no match.
\* The match starts at the first "@@ -<digit>" that a " +<digit>" follows,
\* and the greedy .* runs to the last " +<digit>" of the row.
matchHunkHeader(raw) ==
    LET plusAt(q) == /\ q + 2 <= Len(raw)
                     /\ raw[q] = 32 /\ raw[q + 1] = 43 /\ isDigit(raw[q + 2])
        minusAt(p) == /\ p + 4 <= Len(raw)
                      /\ SubSeq(raw, p, p + 3) = <<64, 64, 32, 45>>
                      /\ isDigit(raw[p + 4])
                      /\ \E q \in (p + 5)..Len(raw) : plusAt(q)
        starts == {p \in 1..Len(raw) : minusAt(p)}
        p == Min(starts)
        q == Max({x \in (p + 5)..Len(raw) : plusAt(x)})
    IN  IF starts = {} THEN Null
        ELSE Some([old |-> parseDecimal(digitRun(raw, p + 4)),
                   new |-> parseDecimal(digitRun(raw, q + 2))])

RECURSIVE parseRows(_, _, _, _, _, _)
\* the first loop: the rows of the diff, classified and numbered, from
\* row k on
parseRows(rows, k, ol, nl, inHunk, entries) ==
    IF k > Len(rows) THEN entries
    ELSE LET raw == rows[k]
             m == matchHunkHeader(raw)
         IN  IF startsWith(raw, <<64, 64>>)
             THEN IF m # Null
                  THEN parseRows(rows, k + 1, m[1].old, m[1].new, TRUE, entries)
                  ELSE parseRows(rows, k + 1, ol, nl, inHunk, entries)
             ELSE IF startsWith(raw, <<45, 45, 45>>)
                     \/ startsWith(raw, <<43, 43, 43>>) \/ ~inHunk
             THEN parseRows(rows, k + 1, ol, nl, inHunk, entries)
             ELSE LET txt == SubSeq(raw, 2, Len(raw))
                  IN  IF Len(raw) > 0 /\ raw[1] = 45
                      THEN parseRows(rows, k + 1, ol + 1, nl, inHunk,
                               Append(entries, [type |-> "r", line |-> ol, text |-> txt]))
                      ELSE IF Len(raw) > 0 /\ raw[1] = 43
                      THEN parseRows(rows, k + 1, ol, nl + 1, inHunk,
                               Append(entries, [type |-> "a", line |-> nl, text |-> txt]))
                      ELSE parseRows(rows, k + 1, ol + 1, nl + 1, inHunk,
                               Append(entries, [type |-> "c", line |-> ol, text |-> txt]))

\* entries, as the first loop leaves it
diffEntries(udiff) == parseRows(Split(udiff), 1, 0, 0, FALSE, <<>>)

\* w = Math.max(3, String(mx).length), mx the largest line of any entry
columnWidth(entries) ==
    LET mx == Max({0} \cup {entries[i].line : i \in 1..Len(entries)})
    IN  Max({3, Len(decimal(mx))})

\* String(n).padStart(w)
pad(n, w) ==
    LET digits == decimal(n)
    IN  [i \in 1..(w - Len(digits)) |-> 32] \o digits

\* near: the positions within CONTEXT of a removed or added entry
nearSet(entries) ==
    {j \in 1..Len(entries) :
        \E i \in 1..Len(entries) :
            /\ entries[i].type # "c"
            /\ j >= i - CONTEXT /\ j <= i + CONTEXT}

\* ` ${" ".repeat(w)} ...`
ellipsisRow(w) == <<32>> \o [i \in 1..w |-> 32] \o <<32, 46, 46, 46>>

\* the row printed for an entry
entryRow(e, w) ==
    <<(IF e.type = "r" THEN 45 ELSE IF e.type = "a" THEN 43 ELSE 32)>>
    \o pad(e.line, w) \o <<32>> \o e.text

RECURSIVE renderLoop(_, _, _, _, _, _, _)
\* the second loop, from entry i on; last is the position of the row printed
\* last (0 for none)
renderLoop(entries, w, near, i, last, firstChanged, out) ==
    IF i > Len(entries) THEN [out |-> out, firstChanged |-> firstChanged]
    ELSE IF entries[i].type = "c" /\ i \notin near
    THEN renderLoop(entries, w, near, i + 1, last, firstChanged, out)
    ELSE LET gap == IF last >= 1 /\ i - last > 1 THEN <<ellipsisRow(w)>> ELSE <<>>
             fc == IF entries[i].type # "c" /\ firstChanged = Null
                   THEN Some(entries[i].line) ELSE firstChanged
         IN  renderLoop(entries, w, near, i + 1, i, fc,
                        out \o gap \o <<entryRow(entries[i], w)>>)

formatUnifiedDiff(udiff) ==
    LET entries == diffEntries(udiff)
        r == renderLoop(entries, columnWidth(entries), nearSet(entries),
                        1, 0, Null, <<>>)
    IN  IF Len(entries) = 0 THEN [diff |-> <<>>, firstChangedLine |-> Null]
        ELSE [diff |-> Join(r.out), firstChangedLine |-> r.firstChanged]

----------------------------------------------------------------------------
(* read: the selection and tagging of lines *)

\* Array.prototype.slice(start, end) for start >= 0: a negative end counts
\* from the end of the array
jsSlice(arr, start, end) ==
    LET e0 == IF end < 0 THEN Len(arr) + end ELSE end
        e == IF e0 < 0 THEN 0 ELSE IF e0 > Len(arr) THEN Len(arr) ELSE e0
    IN  SubSeq(arr, start + 1, e)

\* const startLine = offset ? Math.max(0, offset - 1) : 0
readStartLine(offset) ==
    IF offset # Null /\ offset[1] # 0
    THEN (IF offset[1] - 1 > 0 THEN offset[1] - 1 ELSE 0)
    ELSE 0

\* Math.min(startLine + limit, allLines.length)
readEndLine(startLine, limit, len) ==
    IF startLine + limit < len THEN startLine + limit ELSE len

\* truncateHead of the host, for a block under its line and byte ceilings
truncateHead(content) ==
    [content |-> content, truncated |-> FALSE, firstLineExceedsLimit |-> FALSE]

\* the text handler of read, from the file content to the response
readText(content, q) ==
    LET allLines == Split(content)
        startLine == readStartLine(q.offset)
        endLine == readEndLine(startLine, q.limit[1], Len(allLines))
        selectedLines ==
            IF q.limit # Null THEN jsSlice(allLines, startLine, endLine)
            ELSE jsSlice(allLines, startLine, Len(allLines))
        userLimitedLines == IF q.limit # Null THEN Some(endLine - startLine) ELSE Null
        output == IF q.change_file THEN tagLines(selectedLines) ELSE selectedLines
        truncation == truncateHead(Join(output))
        more == userLimitedLines # Null
                /\ startLine + userLimitedLines[1] < Len(allLines)
    IN  IF startLine >= Len(allLines)
        THEN [ok |-> FALSE, error |-> "OffsetBeyondEnd"]
        ELSE [ok |-> TRUE, error |-> "",
              startLine |-> startLine,
              output |-> output,
              text |-> truncation.content,
              remaining |-> IF more
                            THEN Some(Len(allLines) - (startLine + userLimitedLines[1]))
                            ELSE Null,
              nextOffset |-> IF more
                             THEN Some(startLine + userLimitedLines[1] + 1)
                             ELSE Null]

----------------------------------------------------------------------------
(* Inputs *)

\* "a" and "q " are two contents with the same hash (xE); "" is the empty line
LineA == <<97>>
LineQ == <<113, 32>>
LineB == <<98>>
Lines == {<<>>, LineA, LineQ, LineB}

\* the anchors a caller may hold: those of the lines, that of the empty
\* string, and one no line has
Anchors == {lineHash(l) : l \in Lines} \cup {<<48, 48>>}

LineArrays == SeqsOf(Lines, 0, MaxLines)

\* offsets the schema admits (any number): before, inside and past the array
Offsets == (0 - 1)..(MaxLines + 2)
OptOffsets == {Null} \cup {Some(n) : n \in Offsets}

\* code units of the texts hashed directly: a letter, the space, and two code
\* units above 255 (U+20AC and U+FFFF)
HashChars == {97, 32, 8364, 65535}
HashTexts == SeqsOf(HashChars, 0, MaxTextLen)

\* the requests in flight
Reqs == {1, 2}

----------------------------------------------------------------------------
(* The library, called directly *)

NoCall == [op |-> "none"]

InitLib ==
    /\ libLines \in LineArrays
    /\ libCall = NoCall
    /\ file = <<>>
    /\ pc = [r \in Reqs |-> "idle"]
    /\ params = [r \in Reqs |-> Null]
    /\ snap = [r \in Reqs |-> Null]
    /\ plan = [r \in Reqs |-> Null]
    /\ exec = [r \in Reqs |-> Null]
    /\ resp = [r \in Reqs |-> Null]

CallLineHash ==
    \E text \in HashTexts :
        /\ libCall' = [op |-> "lineHash", text |-> text, result |-> lineHash(text)]
        /\ UNCHANGED <<libLines, toolVars>>

CallTagLines ==
    /\ libCall' = [op |-> "tagLines", result |-> tagLines(libLines)]
    /\ UNCHANGED <<libLines, toolVars>>

CallResolveHash ==
    \E hash \in Anchors, offset \in OptOffsets :
        /\ libCall' = [op |-> "resolveHash", hash |-> hash, offset |-> offset,
                       result |-> resolveHash(libLines, hash, offset)]
        /\ UNCHANGED <<libLines, toolVars>>

\* the caller reads the anchor shown on line i of a tagged listing and
\* resolves it with the line's own position as offset
CallResolveShown ==
    /\ libCall.op = "tagLines"
    /\ \E i \in 1..Len(libCall.result) :
        /\ libCall.result[i] # BlankTag
        /\ LET shown == SubSeq(libCall.result[i], 1, 2)
           IN  libCall' = [op |-> "resolveShown", shownOn |-> i, hash |-> shown,
                           result |-> resolveHash(libLines, shown, Some(i))]
    /\ UNCHANGED <<libLines, toolVars>>

\* the context variant resolves an anchor, with or without a context anchor
CallResolveHashContext ==
    \E hash \in Anchors, ctxHash \in {Null} \cup {Some(h) : h \in Anchors} :
        /\ libCall' = [op |-> "resolveHashContext", hash |-> hash,
                       ctxHash |-> ctxHash,
                       result |-> resolveHashContext(libLines, hash, ctxHash)]
        /\ UNCHANGED <<libLines, toolVars>>

NextLib ==
    \/ CallLineHash
    \/ CallTagLines
    \/ CallResolveHash
    \/ CallResolveShown
    \/ CallResolveHashContext

SpecLib == InitLib /\ [][NextLib]_vars

----------------------------------------------------------------------------
(* formatUnifiedDiff, called on the diffs of single edits of a longer file *)

\* the line the section starts at in its file: with 990 a section of a dozen
\* lines reaches line numbers of four digits
DiffStarts == {1, 990}

\* the section before the edit: DiffLines lines, all different ("A", "B", ...)
sectionLines == [k \in 1..DiffLines |-> [text |-> <<64 + k>>, nl |-> TRUE]]

\* two lines the section does not have: "x" and "y"
NewLineX == [text |-> <<120>>, nl |-> TRUE]
NewLineY == [text |-> <<121>>, nl |-> TRUE]

EditKinds == {"delete", "insert", "first", "last", "both"}

\* what an edit writes in place of the lines s..t of the section: nothing,
\* a new line before them, or the same lines with the first, the last or
\* both of them changed
editedRange(o, s, t, kind) ==
    IF kind = "delete" THEN <<>>
    ELSE IF kind = "insert" THEN <<NewLineX>> \o SubSeq(o, s, t)
    ELSE IF kind = "first" THEN <<NewLineX>> \o SubSeq(o, s + 1, t)
    ELSE IF kind = "last" THEN SubSeq(o, s, t - 1) \o <<NewLineY>>
    ELSE IF s = t THEN <<NewLineX>>
    ELSE <<NewLineX>> \o SubSeq(o, s + 1, t - 1) \o <<NewLineY>>

\* head, content, tail: the section after the edit
splicedLines(o, s, t, kind) ==
    SubSeq(o, 1, s - 1) \o editedRange(o, s, t, kind) \o SubSeq(o, t + 1, Len(o))

\* an edit of the section, not yet carried out
SectionEdits ==
    {e \in [op : {"edit"}, start : DiffStarts, s : 1..DiffLines,
            t : 1..DiffLines, kind : EditKinds] : e.s <= e.t}

InitDiff ==
    /\ libLines = <<>>
    /\ libCall \in SectionEdits
    /\ file = <<>>
    /\ pc = [r \in Reqs |-> "idle"]
    /\ params = [r \in Reqs |-> Null]
    /\ snap = [r \in Reqs |-> Null]
    /\ plan = [r \in Reqs |-> Null]
    /\ exec = [r \in Reqs |-> Null]
    /\ resp = [r \in Reqs |-> Null]

\* the handler trims the executor's output and formats it
CallFormatUnifiedDiff ==
    /\ libCall.op = "edit"
    /\ LET new == splicedLines(sectionLines, libCall.s, libCall.t, libCall.kind)
           out == jsTrim(hunkText(libCall.start, sectionLines, new))
       IN  libCall' = [op |-> "formatUnifiedDiff", start |-> libCall.start,
                       old |-> sectionLines, new |-> new, udiff |-> out,
                       result |-> formatUnifiedDiff(out)]
    /\ UNCHANGED <<libLines, toolVars>>

NextDiff == CallFormatUnifiedDiff

SpecDiff == InitDiff /\ [][NextDiff]_vars

----------------------------------------------------------------------------
(* The tools: change_file and read, one handler run per request *)

\* the files a run starts from: the array of their lines has 1..MaxLines
\* elements, so they end with or without a newline
Files == {Join(ls) : ls \in SeqsOf(Lines, 1, MaxLines)}

ToolAnchors == {lineHash(LineA), lineHash(LineB)}
OptAnchors == {Null} \cup {Some(h) : h \in ToolAnchors}

\* "", "a", "b", "q " (the hash of "a"), "b\n" and "b\na"
Contents == {<<>>, LineA, LineB, LineQ, <<98, NL>>, <<98, NL, 97>>}
OptContents == {Null} \cup {Some(c) : c \in Contents}

EditOffsets == {Null} \cup {Some(n) : n \in 0..(MaxLines + 1)}

ChangeParams ==
    [tool : {"change_file"}, hash_start : OptAnchors, hash_stop : OptAnchors,
     offset : EditOffsets, content : OptContents]

\* the calls of two requests that run against each other
ConcParams ==
    [tool : {"change_file"}, hash_start : OptAnchors, hash_stop : {Null},
     offset : {Null}, content : {Null, Some(LineB)}]

ReadParams ==
    [tool : {"read"},
     offset : {Null} \cup {Some(n) : n \in 0..(MaxLines + 1)},
     limit : {Null} \cup {Some(n) : n \in (0 - 1)..MaxLines},
     change_file : BOOLEAN]

InitTools ==
    /\ file \in Files
    /\ pc = [r \in Reqs |-> "idle"]
    /\ params = [r \in Reqs |-> Null]
    /\ snap = [r \in Reqs |-> Null]
    /\ plan = [r \in Reqs |-> Null]
    /\ exec = [r \in Reqs |-> Null]
    /\ resp = [r \in Reqs |-> Null]
    /\ libLines = <<>>
    /\ libCall = NoCall

\* execute is called: without hash_start it hands CREATE_SCRIPT to the
\* executor at once, otherwise it starts reading the file
Call(r, p) ==
    /\ pc[r] = "idle"
    /\ params' = [params EXCEPT ![r] = Some(p)]
    /\ pc' = [pc EXCEPT ![r] = IF p.hash_start = Null THEN "creating" ELSE "reading"]
    /\ UNCHANGED <<file, snap, plan, exec, resp, libVars>>

\* the executor runs CREATE_SCRIPT and the handler returns
ExecCreate(r) ==
    /\ pc[r] = "creating"
    /\ LET p == params[r][1]
           text == IF p.content # Null THEN p.content[1] ELSE <<>>
       IN  /\ file' = CREATE_SCRIPT(text)
           /\ exec' = [exec EXCEPT ![r] =
                  Some([script |-> "create", mode |-> "create", content |-> text,
                        start |-> 0, stop |-> 0,
                        before |-> file, after |-> CREATE_SCRIPT(text),
                        stdout |-> <<>>])]
           /\ resp' = [resp EXCEPT ![r] =
                  Some([ok |-> TRUE, text |-> plainMessage("Created"),
                        lines |-> IF text # <<>> THEN Len(Split(text)) ELSE 0,
                        warnings |-> <<>>, newRange |-> Null, details |-> Null])]
    /\ pc' = [pc EXCEPT ![r] = "done"]
    /\ UNCHANGED <<params, snap, plan, libVars>>

\* readFile completes: fileLines is the file as it is now
ReadFile(r) ==
    /\ pc[r] = "reading"
    /\ snap' = [snap EXCEPT ![r] = Some(Split(file))]
    /\ pc' = [pc EXCEPT ![r] = "resolving"]
    /\ UNCHANGED <<file, params, plan, exec, resp, libVars>>

\* the handler resolves the anchors against its snapshot, validates the
\* range, and either throws or calls the executor with EDIT_SCRIPT
Resolve(r) ==
    /\ pc[r] = "resolving"
    /\ LET pl == resolveEdit(snap[r][1], params[r][1])
       IN  /\ plan' = [plan EXCEPT ![r] = Some(pl)]
           /\ IF pl.ok
              THEN /\ pc' = [pc EXCEPT ![r] = "executing"]
                   /\ UNCHANGED resp
              ELSE /\ pc' = [pc EXCEPT ![r] = "rejected"]
                   /\ resp' = [resp EXCEPT ![r] =
                          Some([ok |-> FALSE, text |-> plainMessage(pl.error),
                                warnings |-> <<>>, newRange |-> Null, details |-> Null])]
    /\ UNCHANGED <<file, params, snap, exec, libVars>>

\* the executor runs EDIT_SCRIPT on the file as it is now
ExecEdit(r) ==
    /\ pc[r] = "executing"
    /\ LET pl == plan[r][1]
           after == EDIT_SCRIPT(file, pl.mode, pl.content, pl.lineStart, stopArg(pl))
       IN  /\ file' = after
           /\ exec' = [exec EXCEPT ![r] =
                  Some([script |-> "edit", mode |-> pl.mode, content |-> pl.content,
                        start |-> pl.lineStart, stop |-> stopArg(pl),
                        before |-> file, after |-> after,
                        stdout |-> editStdout(file, after)])]
    /\ pc' = [pc EXCEPT ![r] = "executed"]
    /\ UNCHANGED <<params, snap, plan, resp, libVars>>

\* the handler reads the executor's output, formats the diff, reads the file
\* again for the anchors of the written lines, and returns the response
Report(r) ==
    /\ pc[r] = "executed"
    /\ LET p == params[r][1]
           pl == plan[r][1]
           out == jsTrim(exec[r][1].stdout)
           d == formatUnifiedDiff(out)
       IN  resp' = [resp EXCEPT ![r] =
               IF out = NO_CHANGES
               THEN Some([ok |-> TRUE, text |-> plainMessage("No changes made"),
                          warnings |-> <<>>, newRange |-> Null, details |-> Null])
               ELSE Some([ok |-> TRUE,
                          text |-> buildMessage(pl.mode, p.hash_start[1], p.hash_stop),
                          warnings |-> pl.warnings,
                          newRange |-> newRange(pl.contentAfterDrop, d.firstChangedLine,
                                                Split(file)),
                          details |-> Some(d)])]
    /\ pc' = [pc EXCEPT ![r] = "done"]
    /\ UNCHANGED <<file, params, snap, plan, exec, libVars>>

\* read is called
ReadCall(r, q) ==
    /\ pc[r] = "idle"
    /\ params' = [params EXCEPT ![r] = Some(q)]
    /\ pc' = [pc EXCEPT ![r] = "read"]
    /\ UNCHANGED <<file, snap, plan, exec, resp, libVars>>

\* read loads the file and returns the selected lines
ReadReturn(r) ==
    /\ pc[r] = "read"
    /\ snap' = [snap EXCEPT ![r] = Some(Split(file))]
    /\ resp' = [resp EXCEPT ![r] = Some(readText(file, params[r][1]))]
    /\ pc' = [pc EXCEPT ![r] = "done"]
    /\ UNCHANGED <<file, params, plan, exec, libVars>>

\* one request at a time
Next ==
    \/ \E p \in ChangeParams : Call(1, p)
    \/ ExecCreate(1)
    \/ ReadFile(1)
    \/ Resolve(1)
    \/ ExecEdit(1)
    \/ Report(1)
    \/ \E q \in ReadParams : ReadCall(1, q)
    \/ ReadReturn(1)

Spec == InitTools /\ [][Next]_vars

\* requests on the same file, run against each other without locking
NextConc ==
    \E r \in Reqs :
        \/ \E p \in ConcParams : Call(r, p)
        \/ ExecCreate(r)
        \/ ReadFile(r)
        \/ Resolve(r)
        \/ ExecEdit(r)
        \/ Report(r)

SpecConc == InitTools /\ [][NextConc]_vars

----------------------------------------------------------------------------
(* Properties *)

\* the lines of ls, from line `from` on, that are candidates for the anchor h
Candidates(ls, h, from) ==
    {i \in 1..Len(ls) : i >= from /\ ls[i] # <<>> /\ lineHash(ls[i]) = h}

IsEdit(r) ==
    /\ params[r] # Null
    /\ params[r][1].tool = "change_file"
    /\ params[r][1].hash_start # Null

Dispatched(r) == exec[r] # Null /\ exec[r][1].script = "edit"

\* C1: a change_file request with a start anchor that ends rejected has not
\* invoked the executor and the file is still the snapshot it read; and a
\* request that has invoked the executor resolved its anchors in its snapshot
\* to a start line and a stop line with start <= stop.
C1_RejectedBeforeDispatch ==
    \A r \in Reqs :
        IsEdit(r) =>
            /\ pc[r] = "rejected" =>
                   /\ exec[r] = Null
                   /\ ~plan[r][1].ok
                   /\ file = Join(snap[r][1])
            /\ Dispatched(r) =>
                   LET p == params[r][1]
                       e == exec[r][1]
                       ls == snap[r][1]
                   IN  /\ e.start \in Candidates(ls, p.hash_start[1], 1)
                       /\ p.hash_stop # Null =>
                              e.stop \in Candidates(ls, p.hash_stop[1], 1)
                       /\ e.start <= e.stop

\* a request rejected by range validation: both anchors resolved, stop first
C1_Witness ==
    \E r \in Reqs :
        /\ IsEdit(r)
        /\ pc[r] = "rejected"
        /\ resp[r][1].text.verb = "InvalidRange"
        /\ plan[r][1].lineStop[1] < plan[r][1].lineStart

\* the line a dispatched mutation was applied at had, in the file as the
\* executor found it, the hash given as the start anchor
AppliedAtAnchor(r) ==
    LET e == exec[r][1]
        ls == Split(e.before)
    IN  /\ e.start \in 1..Len(ls)
        /\ lineHash(ls[e.start]) = params[r][1].hash_start[1]

\* C2 as stated: for every interleaving of requests on the same file, every
\* dispatched mutation is applied at a line that has, at dispatch time, the
\* hash given as the request's start anchor.
C2_Claim ==
    \A r \in Reqs : (IsEdit(r) /\ Dispatched(r)) => AppliedAtAnchor(r)

\* C2 amended: the same, for every dispatched mutation that finds the file
\* as the request's snapshot read it (no other mutation landed in between).
C2_AppliedAtAnchorWhenFresh ==
    \A r \in Reqs :
        (IsEdit(r) /\ Dispatched(r) /\ Split(exec[r][1].before) = snap[r][1])
            => AppliedAtAnchor(r)

\* two requests in flight together: o's mutation changed the file, r read
\* its snapshot after it and was dispatched on that very file
C2_Witness ==
    \E r \in Reqs, o \in Reqs :
        /\ r # o
        /\ IsEdit(r) /\ Dispatched(r)
        /\ IsEdit(o) /\ Dispatched(o)
        /\ exec[o][1].before # exec[o][1].after
        /\ exec[o][1].after = exec[r][1].before
        /\ Split(exec[r][1].before) = snap[r][1]
        /\ exec[r][1].before # exec[r][1].after

\* C3: resolveHash without an offset: no candidate among the non-empty lines
\* gives the not-found error; exactly one gives that line, not ambiguous;
\* several give the lowest-numbered one, ambiguous; an empty line is never
\* returned.
C3_ResolveNoOffset ==
    (libCall.op = "resolveHash" /\ libCall.offset = Null) =>
        LET c == Candidates(libLines, libCall.hash, 1)
            res == libCall.result
        IN  /\ c = {} => (~res.ok /\ res.error = "HashNotFound")
            /\ Cardinality(c) = 1 => (res.ok /\ res.line \in c /\ ~res.ambiguous)
            /\ Cardinality(c) > 1 => (res.ok /\ res.line = Min(c) /\ res.ambiguous)
            /\ res.ok => libLines[res.line] # <<>>

\* several candidates of different content (a collision), after an empty line
C3_Witness ==
    /\ libCall.op = "resolveHash"
    /\ libCall.offset = Null
    /\ libCall.result.ambiguous
    /\ libLines[1] = <<>>
    /\ \E i \in Candidates(libLines, libCall.hash, 1) :
           libLines[i] # libLines[libCall.result.line]

\* C4 as stated: resolveHash with any offset returns the lowest-numbered
\* candidate at or after the offset, and fails with the not-found "at or
\* after line N" error when there is none; it has no other outcome.
C4_Claim ==
    (libCall.op = "resolveHash" /\ libCall.offset # Null) =>
        LET c == Candidates(libLines, libCall.hash, libCall.offset[1])
            res == libCall.result
        IN  IF c = {}
            THEN ~res.ok /\ res.error = "HashNotFoundAtOrAfter"
            ELSE res.ok /\ res.line = Min(c)

\* C7: resolving the anchor tagLines shows on a line, with that line's own
\* position as offset, returns that position.
C7_RoundTrip ==
    libCall.op = "resolveShown" =>
        /\ libCall.result.ok
        /\ libCall.result.line = libCall.shownOn

\* the anchor of a line that an earlier line shares
C7_Witness ==
    /\ libCall.op = "resolveShown"
    /\ libCall.shownOn >= 2
    /\ \E j \in 1..(libCall.shownOn - 1) :
           /\ libLines[j] # <<>>
           /\ lineHash(libLines[j]) = libCall.hash
    /\ libCall.result.line = libCall.shownOn

\* a finished change_file edit request that supplied no offset
DoneNoOffset(r) ==
    /\ IsEdit(r)
    /\ pc[r] = "done"
    /\ params[r][1].offset = Null

Warned(r, h) == \E i \in 1..Len(resp[r][1].warnings) : resp[r][1].warnings[i].hash = h

\* C5 as stated: in a request without offset, when hash_start or hash_stop
\* matches several non-empty lines of the snapshot, the first match is used
\* (for hash_stop, the first from the start line on) and the response
\* carries a warning naming that anchor.
C5_Claim ==
    \A r \in Reqs :
        DoneNoOffset(r) =>
            LET p == params[r][1]
                pl == plan[r][1]
                ls == snap[r][1]
            IN  /\ Cardinality(Candidates(ls, p.hash_start[1], 1)) > 1 =>
                       /\ pl.lineStart = Min(Candidates(ls, p.hash_start[1], 1))
                       /\ Warned(r, p.hash_start[1])
                /\ (p.hash_stop # Null
                    /\ Cardinality(Candidates(ls, p.hash_stop[1], 1)) > 1) =>
                       /\ pl.lineStop[1] = Min(Candidates(ls, p.hash_stop[1], pl.lineStart))
                       /\ Warned(r, p.hash_stop[1])

\* C6 as stated: with both anchors given, the search for the stop anchor
\* begins at or after the resolved start line, with or without offset, and a
\* stop candidate before the start line is not selected while another
\* candidate lies at or after the start line.
C6_Claim ==
    \A r \in Reqs :
        (IsEdit(r) /\ plan[r] # Null /\ plan[r][1].stopOffset # Null) =>
            LET p == params[r][1]
                pl == plan[r][1]
                ls == snap[r][1]
            IN  /\ pl.stopOffset[1][1] >= pl.lineStart
                /\ (pl.lineStop # Null /\ pl.lineStop[1] < pl.lineStart) =>
                       Candidates(ls, p.hash_stop[1], pl.lineStart) = {}

----------------------------------------------------------------------------
(* FNV-1a on 32 bits, byte by byte: the reference lineHash is compared with *)

\* a 32-bit word is <<b0, b1, b2, b3>>, its four bytes, lowest first

\* 0x811c9dc5
RefOffsetBasis == <<197, 157, 28, 129>>

RefBit(x, i) == (x \div (2 ^ i)) % 2

\* exclusive or of two bytes
RefXorByte(x, y) ==
    LET d(i) == ((RefBit(x, i) + RefBit(y, i)) % 2) * (2 ^ i)
    IN  d(0) + d(1) + d(2) + d(3) + d(4) + d(5) + d(6) + d(7)

\* exclusive or with a code unit (16 bits)
RefXor(h, c) ==
    <<RefXorByte(h[1], c % 256), RefXorByte(h[2], c \div 256), h[3], h[4]>>

\* times 16777619 = 0x01000193 (bytes 0x93, 0x01, 0x00, 0x01), modulo 2^32:
\* long multiplication, byte by byte
RefTimesPrime(h) ==
    LET c0 == h[1] * 147
        c1 == (h[2] * 147) + h[1] + (c0 \div 256)
        c2 == (h[3] * 147) + h[2] + (c1 \div 256)
        c3 == (h[4] * 147) + h[3] + h[1] + (c2 \div 256)
    IN  <<c0 % 256, c1 % 256, c2 % 256, c3 % 256>>

RECURSIVE RefFnv(_, _, _)
RefFnv(text, i, h) ==
    IF i > Len(text) THEN h
    ELSE RefFnv(text, i + 1, RefTimesPrime(RefXor(h, text[i])))

\* the unsigned value of the word, modulo 3844
RefMod(h) ==
    ((((((h[4] % 3844) * 256 + h[3]) % 3844) * 256 + h[2]) % 3844) * 256 + h[1]) % 3844

RefHashNumber(text) == RefMod(RefFnv(text, 1, RefOffsetBasis))

\* the value of a base-62 digit in the alphabet 0-9, A-Z, a-z; -1 otherwise
DigitValue(c) ==
    IF c \in 48..57 THEN c - 48
    ELSE IF c \in 65..90 THEN c - 55
    ELSE IF c \in 97..122 THEN c - 61
    ELSE 0 - 1

\* C8: lineHash(content) is exactly two characters of the base-62 alphabet,
\* the high and the low digit of n = FNV-1a-32(content) mod 3844, with n in
\* 0..3843.
C8_LineHashIsFnv ==
    libCall.op = "lineHash" =>
        LET res == libCall.result
            n == RefHashNumber(libCall.text)
        IN  /\ Len(res) = 2
            /\ DigitValue(res[1]) >= 0
            /\ DigitValue(res[2]) >= 0
            /\ n \in 0..3843
            /\ DigitValue(res[1]) = n \div 62
            /\ DigitValue(res[2]) = n % 62

\* a text of two code units, one of them above 255
C8_Witness ==
    /\ libCall.op = "lineHash"
    /\ Len(libCall.text) >= 2
    /\ \E i \in 1..Len(libCall.text) : libCall.text[i] > 255
    /\ Len(libCall.result) = 2

\* a finished read that asked for tags
TaggedRead(r) ==
    /\ params[r] # Null
    /\ params[r][1].tool = "read"
    /\ params[r][1].change_file
    /\ pc[r] = "done"
    /\ resp[r][1].ok

\* the entry shown for a line: the blank marker for an empty line, and for
\* any other line its hash, a bar, and the line
ShownAs(entry, line) ==
    IF line = <<>> THEN entry = BlankTag
    ELSE /\ Len(entry) = Len(line) + 3
         /\ SubSeq(entry, 1, 2) = lineHash(line)
         /\ entry[3] = 124
         /\ SubSeq(entry, 4, Len(entry)) = line

C10_Claim ==
    \A r \in Reqs :
        (params[r] # Null /\ params[r][1].tool = "change_file" /\ exec[r] # Null) =>
            LET p == params[r][1]
                e == exec[r][1]
            IN  /\ p.hash_start = Null =>
                       /\ e.script = "create"
                       /\ e.after = (IF p.content = Null THEN <<>> ELSE p.content[1])
                       /\ snap[r] = Null
                /\ (p.hash_start # Null /\ p.content = Null) => e.mode = "delete"
                /\ (p.hash_start # Null /\ p.content # Null /\ p.hash_stop = Null) =>
                       e.mode = "insert"
                /\ (p.hash_start # Null /\ p.content # Null /\ p.hash_stop # Null) =>
                       e.mode = "replace"
                /\ e.mode = "delete" <=> (p.hash_start # Null /\ p.content = Null)

\* a change_file request with a start anchor that returned a response
EditDone(r) == IsEdit(r) /\ pc[r] = "done" /\ resp[r][1].ok

\* the lines of the text handed to the executor
WrittenLines(r) ==
    LET toks == fileTokens(plan[r][1].content)
    IN  [i \in 1..Len(toks) |-> toks[i].text]

\* C11 as stated: when the response of an insert or replace reports
\* continuation anchors, the first is lineHash of the first line of the
\* written content and the last is lineHash of its last line.
C11_Claim ==
    \A r \in Reqs :
        (EditDone(r) /\ resp[r][1].newRange # Null) =>
            LET nr == resp[r][1].newRange[1]
                w == WrittenLines(r)
            IN  /\ nr[1] = lineHash(w[1])
                /\ nr[Len(nr)] = lineHash(w[Len(w)])

\* formatUnifiedDiff has been applied to the diff of an edit of the section
DiffCall == libCall.op = "formatUnifiedDiff"

\* an entry that is removed or added, or within 4 entries of one
Retained(es, i) ==
    \E j \in 1..Len(es) : es[j].type # "c" /\ i - j <= 4 /\ j - i <= 4

RECURSIVE Windowed(_, _, _)
\* the report of the entries from i on: every retained entry, and one
\* ellipsis marker for every maximal run of entries that are not retained
Windowed(es, w, i) ==
    IF i > Len(es) THEN <<>>
    ELSE IF Retained(es, i) THEN <<entryRow(es[i], w)>> \o Windowed(es, w, i + 1)
    ELSE IF i = 1 \/ Retained(es, i - 1)
    THEN <<ellipsisRow(w)>> \o Windowed(es, w, i + 1)
    ELSE Windowed(es, w, i + 1)

\* C12 as stated: the report keeps every removed and added row, keeps a
\* context row only within 4 rows of one, and puts a single ellipsis marker
\* in place of every maximal run of dropped context rows, before the first
\* change, between changes and after the last change alike.
C12_Claim ==
    DiffCall =>
        LET es == diffEntries(libCall.udiff)
        IN  Split(libCall.result.diff) = Windowed(es, columnWidth(es), 1)

\* the same, for the runs of dropped rows between two retained rows only
\* (no marker stands for the rows dropped before the first or after the last
\* retained row)
C12_InnerRunsCollapsed ==
    DiffCall =>
        LET es == diffEntries(libCall.udiff)
            kept == {i \in 1..Len(es) : Retained(es, i)}
            inner == SubSeq(es, Min(kept), Max(kept))
        IN  Split(libCall.result.diff) = Windowed(inner, columnWidth(es), 1)

\* the lines of the snapshot that the request resolved its range to
RangeLines(r) ==
    SubSeq(snap[r][1], plan[r][1].lineStart, stopArg(plan[r][1]))

\* a replace whose content is the text of the lines of its range, with or
\* without a newline after the last of them
IdenticalReplace(r) ==
    /\ EditDone(r)
    /\ plan[r][1].mode = "replace"
    /\ params[r][1].content[1] \in {Join(RangeLines(r)), Terminate(RangeLines(r))}

\* C13 as stated: a replace whose content is identical to the lines of the
\* resolved range leaves the file as it was, and the response says that no
\* changes were made and carries no diff.
C13_Claim ==
    \A r \in Reqs :
        IdenticalReplace(r) =>
            /\ exec[r][1].after = exec[r][1].before
            /\ resp[r][1].text.verb = "No changes made"
            /\ resp[r][1].details = Null

\* the same, for a range whose lines all end with a newline in the file
C13_NoOpOnTerminatedLines ==
    \A r \in Reqs :
        (IdenticalReplace(r)
         /\ stopArg(plan[r][1]) < Len(snap[r][1])) =>
            /\ exec[r][1].after = exec[r][1].before
            /\ resp[r][1].text.verb = "No changes made"
            /\ resp[r][1].details = Null

\* a read that returned lines and a continuation offset
ContinuedRead(r) ==
    /\ params[r] # Null
    /\ params[r][1].tool = "read"
    /\ pc[r] = "done"
    /\ resp[r][1].ok
    /\ resp[r][1].nextOffset # Null

\* C15 as stated: the continuation offset of a read is one past the last
\* line shown, and the lines shown are those from the line read at up to it:
\* at least one, so that reading on at the returned offset shows every line
\* once and comes to an end.
C15_Claim ==
    \A r \in Reqs :
        ContinuedRead(r) =>
            LET re == resp[r][1]
                all == snap[r][1]
                shown == Len(re.output)
            IN  /\ re.nextOffset[1] = re.startLine + shown + 1
                /\ shown >= 1
                /\ re.nextOffset[1] <= Len(all)

\* the same, for the reads with a limit of at least one line
C15_ContinuationWithPositiveLimit ==
    \A r \in Reqs :
        (ContinuedRead(r) /\ params[r][1].limit[1] >= 1) =>
            LET re == resp[r][1]
                shown == Len(re.output)
            IN  /\ re.nextOffset[1] = re.startLine + shown + 1
                /\ shown >= 1
                /\ re.nextOffset[1] <= Len(snap[r][1])

\* a call of the context resolver with a context anchor, for a target that
\* several lines match
ContextCall ==
    /\ libCall.op = "resolveHashContext"
    /\ libCall.ctxHash # Null
    /\ Cardinality(Candidates(libLines, libCall.hash, 1)) > 1

Invoked(r) == IsEdit(r) /\ plan[r] # Null /\ plan[r][1].ok

\* C17: whenever change_file calls the executor in insert, replace or delete
\* mode, START and STOP satisfy 1 <= START <= STOP <= the number of lines of
\* the snapshot of that request, line START of the snapshot is not empty and
\* has the hash hash_start, and line STOP is not empty and has the hash
\* hash_stop when hash_stop was given, and is START otherwise.
C17_DispatchedRange ==
    \A r \in Reqs :
        Invoked(r) =>
            LET p == params[r][1]
                ls == snap[r][1]
                START == plan[r][1].lineStart
                STOP == stopArg(plan[r][1])
            IN  /\ plan[r][1].mode \in {"insert", "replace", "delete"}
                /\ 1 <= START /\ START <= STOP /\ STOP <= Len(ls)
                /\ ls[START] # <<>>
                /\ lineHash(ls[START]) = p.hash_start[1]
                /\ p.hash_stop # Null =>
                       (ls[STOP] # <<>> /\ lineHash(ls[STOP]) = p.hash_stop[1])
                /\ p.hash_stop = Null => STOP = START
                /\ exec[r] # Null =>
                       (exec[r][1].start = START /\ exec[r][1].stop = STOP)

\* a replace dispatched for a range of several lines, found with an offset
\* past the first candidate of the start anchor
C17_Witness ==
    \E r \in Reqs :
        /\ Invoked(r)
        /\ exec[r] # Null
        /\ plan[r][1].mode = "replace"
        /\ params[r][1].offset # Null
        /\ plan[r][1].lineStart > Min(Candidates(snap[r][1], params[r][1].hash_start[1], 1))
        /\ stopArg(plan[r][1]) > plan[r][1].lineStart

RECURSIVE TrueNumbers(_, _, _, _)
\* the line numbers of the rows of a hunk that start with ch, from row i on:
\* one more than the number of earlier rows that stand for a line of the
\* same file (those whose first character is in `counted`)
TrueNumbers(rows, i, ch, counted) ==
    IF i > Len(rows) THEN <<>>
    ELSE (IF rows[i].ch = ch
          THEN <<1 + Cardinality({j \in 1..(i - 1) : rows[j].ch \in counted})>>
          ELSE <<>>)
         \o TrueNumbers(rows, i + 1, ch, counted)

\* the line numbers formatUnifiedDiff gives to its entries of one type
EntryNumbers(es, type) ==
    LET sel == SelectSeq(es, LAMBDA e : e.type = type)
    IN  [i \in 1..Len(sel) |-> sel[i].line]

\* an edit that changed the file and was reported with a diff
Diffed(r) == EditDone(r) /\ resp[r][1].details # Null

\* C18 as stated: for every diff the executor emits, files without a final
\* newline included, the removed rows carry the old-file line numbers of
\* the lines removed and the added rows the new-file line numbers of the
\* lines added.
C18_Claim ==
    \A r \in Reqs :
        Diffed(r) =>
            LET rows == hunkRows(fileTokens(exec[r][1].before),
                                 fileTokens(exec[r][1].after))
                es == diffEntries(jsTrim(exec[r][1].stdout))
            IN  /\ EntryNumbers(es, "r") = TrueNumbers(rows, 1, 45, {32, 45})
                /\ EntryNumbers(es, "a") = TrueNumbers(rows, 1, 43, {32, 43})

\* the same, for the edits of files that end with a newline before and
\* after
C18_NumbersWithFinalNewline ==
    \A r \in Reqs :
        (Diffed(r)
         /\ (exec[r][1].before = <<>> \/ endsWithNL(exec[r][1].before))
         /\ (exec[r][1].after = <<>> \/ endsWithNL(exec[r][1].after))) =>
            LET rows == hunkRows(fileTokens(exec[r][1].before),
                                 fileTokens(exec[r][1].after))
                es == diffEntries(jsTrim(exec[r][1].stdout))
            IN  /\ EntryNumbers(es, "r") = TrueNumbers(rows, 1, 45, {32, 45})
                /\ EntryNumbers(es, "a") = TrueNumbers(rows, 1, 43, {32, 43})

\* text, or text with a newline appended
WithOptionalNewline(text) == {text, text \o <<NL>>}

\* C19 as stated: in insert mode the executor is handed the caller's
\* content with at most a final newline appended, without its last line
\* when that line is the line inserted before; a last line whose text
\* differs from that line is not dropped; in replace and delete mode the
\* content is handed over whole.
C19_Claim ==
    \A r \in Reqs :
        Invoked(r) =>
            LET pl == plan[r][1]
                given == IF params[r][1].content = Null THEN <<>>
                         ELSE params[r][1].content[1]
                contentLines == Split(given)
                target == snap[r][1][pl.lineStart]
            IN  IF pl.mode = "insert" /\ contentLines[Len(contentLines)] = target
                THEN pl.content \in WithOptionalNewline(
                         Join(SubSeq(contentLines, 1, Len(contentLines) - 1)))
                ELSE pl.content \in WithOptionalNewline(given)

\* the same, with "has the hash of the line inserted before" in place of
\* "is the line inserted before"
C19_DropByHash ==
    \A r \in Reqs :
        Invoked(r) =>
            LET pl == plan[r][1]
                given == IF params[r][1].content = Null THEN <<>>
                         ELSE params[r][1].content[1]
                contentLines == Split(given)
                target == snap[r][1][pl.lineStart]
            IN  IF /\ pl.mode = "insert"
                   /\ lineHash(contentLines[Len(contentLines)]) = lineHash(target)
                THEN pl.content \in WithOptionalNewline(
                         Join(SubSeq(contentLines, 1, Len(contentLines) - 1)))
                ELSE pl.content \in WithOptionalNewline(given)

\* the entries that the report shows: removed, added, or near one
ShownEntries(es) == {i \in 1..Len(es) : es[i].type # "c" \/ i \in nearSet(es)}

\* C20 as stated: every line number of the report is right-aligned in a
\* column as wide as the largest line number that appears in the report has
\* digits, and at least 3 wide: the report is the one rendered at the width
\* of the rows it retains.
C20_Claim ==
    DiffCall =>
        LET es == diffEntries(libCall.udiff)
            largest == Max({es[i].line : i \in ShownEntries(es)})
            width == Max({3, Len(decimal(largest))})
        IN  Split(libCall.result.diff)
                = renderLoop(es, width, nearSet(es), 1, 0, Null, <<>>).out

====
